---- MODULE Spec2Model ----
(***************************************************************************)
(* Model of scripts/setup_webhook.py: the interactive Telegram webhook     *)
(* setup script.  One run of main() is one behaviour.  Python values are   *)
(* records tagged with their type; text is a TLA+ string, that is, a       *)
(* sequence of characters.                                                 *)
(***************************************************************************)
EXTENDS Integers, Sequences, FiniteSets, TLC

(* ------------------------------------------------------------------ *)
(* Bounds of the model                                                 *)
(* ------------------------------------------------------------------ *)

\* How many rejected entries the operator makes in one run, at most.
MaxRejects == 2

(* ------------------------------------------------------------------ *)
(* Program constants                                                   *)
(* ------------------------------------------------------------------ *)

\* validate=lambda x: len(x) > 10 and x.isdigit()
TokenLenOver == 10
\* validate=lambda x: len(x) >= 8
MinSecretLen == 8
\* secrets.token_urlsafe(32)
SecretBytes == 32

(* ------------------------------------------------------------------ *)
(* Python values                                                       *)
(* ------------------------------------------------------------------ *)

\* The character c repeated n times.
RECURSIVE Rep(_, _)
Rep(c, n) == IF n <= 0 THEN "" ELSE c \o Rep(c, n - 1)

Digits == {"0", "1", "2", "3", "4", "5", "6", "7", "8", "9"}

PyNone == [type |-> "NoneType"]
PyStr(s) == [type |-> "str", value |-> s]
PyBool(b) == [type |-> "bool", value |-> b]
PyInt(n) == [type |-> "int", value |-> n]
PyDict(d) == [type |-> "dict", value |-> d]
Unbound == [type |-> "unbound"]

\* An InquirerPy prompt object that has been built but not executed.
ConfirmPrompt(message) == [type |-> "ConfirmPrompt", message |-> message]

\* Truth value of a Python object as used by `if x:` and `not x`.
Truthy(v) ==
  CASE v.type = "NoneType" -> FALSE
    [] v.type = "bool" -> v.value
    [] v.type = "str" -> Len(v.value) > 0
    [] v.type = "int" -> v.value # 0
    [] v.type = "dict" -> DOMAIN v.value # {}
    [] OTHER -> TRUE

\* str.isdigit(): non-empty and every character is a digit.
isdigit(x) == Len(x) > 0 /\ \A i \in 1..Len(x) : SubSeq(x, i, i) \in Digits

\* str.startswith(prefix)
startswith(x, prefix) ==
  Len(x) >= Len(prefix) /\ SubSeq(x, 1, Len(prefix)) = prefix

\* dict.get(key, default)
DictGet(d, key, default) == IF key \in DOMAIN d THEN d[key] ELSE default

HttpsPrefix == "https://"

\* secrets.token_urlsafe(nbytes): base64url text of nbytes random bytes,
\* padding stripped.  The random outcome is sampled by constant strings.
token_urlsafe(nbytes) ==
  { Rep(c, (4 * nbytes + 2) \div 3) : c \in {"A", "z", "_"} }

(* ------------------------------------------------------------------ *)
(* Prompts                                                             *)
(* ------------------------------------------------------------------ *)

\* Validate with the digits test of the bot token left out.
Validate_mut(prompt, x) ==
  CASE prompt = "bot_token" -> Len(x) > TokenLenOver
    [] prompt = "webhook_url" -> startswith(x, HttpsPrefix)
    [] prompt = "secret_token" -> Len(x) >= MinSecretLen
    [] OTHER -> TRUE

\* The validate= predicate of each inquirer.text prompt.
Validate(prompt, x) ==
  CASE prompt = "bot_token" -> Len(x) > TokenLenOver /\ isdigit(x)
    [] prompt = "webhook_url" -> startswith(x, HttpsPrefix)
    [] prompt = "secret_token" -> Len(x) >= MinSecretLen
    [] OTHER -> TRUE

\* What the operator may type at each text prompt.
TextInputs(prompt) ==
  CASE prompt = "bot_token" ->
         { "",
           Rep("1", TokenLenOver),
           Rep("1", TokenLenOver + 1),
           Rep("7", TokenLenOver + 2),
           "a" \o Rep("1", TokenLenOver + 1),
           Rep("1", TokenLenOver - 1) \o ":A" }
    [] prompt = "webhook_url" ->
         { "", "https://x.test/hook", "http://x.test/hook",
           "x" \o HttpsPrefix }
    [] prompt = "secret_token" ->
         { Rep("s", MinSecretLen - 1), Rep("s", MinSecretLen) }
    [] prompt = "function_name" -> { "SecondBrainProcessor", "OtherFn" }
    [] prompt = "region" -> { "us-east-1", "eu-west-1" }

TextPrompts ==
  {"bot_token", "function_name", "region", "webhook_url", "secret_token"}

\* AfterText with the region prompt leading back to the function name.
AfterText_mut(prompt) ==
  CASE prompt = "bot_token" -> "action"
    [] prompt = "function_name" -> "region"
    [] prompt = "region" -> "function_name"
    [] prompt = "webhook_url" -> "use_secret"
    [] prompt = "secret_token" -> "summary"

\* Where control goes when a text prompt returns.
AfterText(prompt) ==
  CASE prompt = "bot_token" -> "action"
    [] prompt = "function_name" -> "region"
    [] prompt = "region" -> "lookup"
    [] prompt = "webhook_url" -> "use_secret"
    [] prompt = "secret_token" -> "summary"

Actions == {"set", "info", "delete", "test"}
Sources == {"auto", "manual"}

\* Every point where the script waits for the operator.
PromptPcs ==
  TextPrompts \cup {"action", "delete_confirm", "webhook_source", "use_secret"}

(* ------------------------------------------------------------------ *)
(* The outside world: what the network and the aws CLI may answer      *)
(* ------------------------------------------------------------------ *)

Descriptions == {"Unauthorized", "Bad Request: bad webhook", ""}

ExceptionTexts == {"Read timed out", "Expecting value"}

\* The "result" member of a getWebhookInfo answer.
InfoResults ==
  { PyDict([url |-> PyStr("https://example.com/hook")]),
    PyDict([pending_update_count |-> PyInt(0)]),
    PyBool(TRUE) }

\* JSON objects the Telegram API may answer with.
JsonBodies(endpoint) ==
  (IF endpoint = "getWebhookInfo"
   THEN { [ok |-> PyBool(TRUE), result |-> r] : r \in InfoResults }
   ELSE {})
  \cup { [ok |-> PyBool(TRUE)], [ok |-> PyBool(FALSE)] }
  \cup { [ok |-> PyBool(FALSE), description |-> PyStr(d)] : d \in Descriptions }
  \cup { [description |-> PyStr(d)] : d \in Descriptions }

\* Everything that can happen when one of the API functions runs:
\* a JSON object comes back, something raises inside the try block
\* (connection error, timeout, body that is not a JSON object), the
\* operator interrupts while the request is in flight, or the requests
\* package is missing.
Replies(endpoint) ==
  { [kind |-> "json", body |-> b] : b \in JsonBodies(endpoint) }
  \cup { [kind |-> "exception", text |-> t] : t \in ExceptionTexts }
  \cup { [kind |-> "interrupt"], [kind |-> "import_error"] }

\* What `aws lambda get-function-url-config` may do.
LookupOutcomes ==
  { [kind |-> "stdout", config |-> c] :
      c \in { PyDict([FunctionUrl |-> PyStr("https://abc.lambda-url.on.aws/")]),
              PyDict([FunctionUrl |-> PyStr("")]),
              PyDict([FunctionUrl |-> PyNone]),
              PyDict([FunctionArn |-> PyStr("arn:aws:lambda")]),
              [type |-> "list"] } }
  \cup { [kind |-> "CalledProcessError"], [kind |-> "JSONDecodeError"],
         [kind |-> "FileNotFoundError"], [kind |-> "interrupt"] }

(* ------------------------------------------------------------------ *)
(* The functions of the script                                         *)
(* ------------------------------------------------------------------ *)

Request(method, endpoint, bot_token, json) ==
  [method |-> method, endpoint |-> endpoint, bot_token |-> bot_token,
   json |-> json]

\* Result of running a function: the requests it sent, the lines it
\* printed, the exception that left it ("none" if it returned) and the
\* value it returned.
Ran(sent, printed, raises, ret) ==
  [sent |-> sent, printed |-> printed, raises |-> raises, ret |-> ret]

\* The pair (success, value) the API functions return.
Pair(success, value) == [success |-> success, value |-> value]

get_function_url(function_name, region, outcome) ==
  LET command == [function_name |-> function_name.value,
                  region |-> region.value]
  IN CASE outcome.kind = "stdout" ->
            IF outcome.config.type # "dict"
            THEN Ran(<<command>>, <<>>, "TypeError", PyNone)
            ELSE IF "FunctionUrl" \notin DOMAIN outcome.config.value
            THEN Ran(<<command>>, <<>>, "KeyError", PyNone)
            ELSE Ran(<<command>>, <<>>, "none",
                     outcome.config.value["FunctionUrl"])
       [] outcome.kind = "CalledProcessError" ->
            Ran(<<command>>,
                <<[kind |-> "error_getting_function_url", text |-> ""]>>,
                "none", PyNone)
       [] outcome.kind = "JSONDecodeError" ->
            Ran(<<command>>,
                <<[kind |-> "error_parsing_function_url", text |-> ""]>>,
                "none", PyNone)
       [] outcome.kind = "interrupt" ->
            Ran(<<command>>, <<>>, "KeyboardInterrupt", PyNone)
       [] OTHER -> Ran(<<command>>, <<>>, outcome.kind, PyNone)

\* set_webhook that never puts the secret token into the payload.
set_webhook_nosecret(bot_token, webhook_url, secret_token, reply) ==
  LET payload == [url |-> webhook_url.value]
      request == Request("POST", "setWebhook", bot_token.value, PyDict(payload))
  IN CASE reply.kind = "import_error" ->
            Ran(<<>>, <<>>, "ImportError", PyNone)
       [] reply.kind = "interrupt" ->
            Ran(<<request>>, <<>>, "KeyboardInterrupt", PyNone)
       [] reply.kind = "exception" ->
            Ran(<<request>>, <<>>, "none", Pair(FALSE, PyStr(reply.text)))
       [] reply.kind = "json" ->
            IF Truthy(DictGet(reply.body, "ok", PyNone))
            THEN Ran(<<request>>, <<>>, "none",
                     Pair(TRUE, PyStr("Webhook set successfully!")))
            ELSE Ran(<<request>>, <<>>, "none",
                     Pair(FALSE, DictGet(reply.body, "description",
                                         PyStr("Unknown error"))))

\* set_webhook that reports every API failure as "Unknown error".
set_webhook_unknown(bot_token, webhook_url, secret_token, reply) ==
  LET payload == IF Truthy(secret_token)
                 THEN [url |-> webhook_url.value,
                       secret_token |-> secret_token.value]
                 ELSE [url |-> webhook_url.value]
      request == Request("POST", "setWebhook", bot_token.value, PyDict(payload))
  IN CASE reply.kind = "import_error" ->
            Ran(<<>>, <<>>, "ImportError", PyNone)
       [] reply.kind = "interrupt" ->
            Ran(<<request>>, <<>>, "KeyboardInterrupt", PyNone)
       [] reply.kind = "exception" ->
            Ran(<<request>>, <<>>, "none", Pair(FALSE, PyStr(reply.text)))
       [] reply.kind = "json" ->
            IF Truthy(DictGet(reply.body, "ok", PyNone))
            THEN Ran(<<request>>, <<>>, "none",
                     Pair(TRUE, PyStr("Webhook set successfully!")))
            ELSE Ran(<<request>>, <<>>, "none", Pair(FALSE, PyStr("Unknown error")))

set_webhook(bot_token, webhook_url, secret_token, reply) ==
  LET payload == IF Truthy(secret_token)
                 THEN [url |-> webhook_url.value,
                       secret_token |-> secret_token.value]
                 ELSE [url |-> webhook_url.value]
      request == Request("POST", "setWebhook", bot_token.value, PyDict(payload))
  IN CASE reply.kind = "import_error" ->
            Ran(<<>>, <<>>, "ImportError", PyNone)
       [] reply.kind = "interrupt" ->
            Ran(<<request>>, <<>>, "KeyboardInterrupt", PyNone)
       [] reply.kind = "exception" ->
            Ran(<<request>>, <<>>, "none", Pair(FALSE, PyStr(reply.text)))
       [] reply.kind = "json" ->
            IF Truthy(DictGet(reply.body, "ok", PyNone))
            THEN Ran(<<request>>, <<>>, "none",
                     Pair(TRUE, PyStr("Webhook set successfully!")))
            ELSE Ran(<<request>>, <<>>, "none",
                     Pair(FALSE, DictGet(reply.body, "description",
                                         PyStr("Unknown error"))))

get_webhook_info(bot_token, reply) ==
  LET request == Request("GET", "getWebhookInfo", bot_token.value, PyNone)
  IN CASE reply.kind = "import_error" ->
            Ran(<<>>, <<>>, "ImportError", PyNone)
       [] reply.kind = "interrupt" ->
            Ran(<<request>>, <<>>, "KeyboardInterrupt", PyNone)
       [] reply.kind = "exception" ->
            Ran(<<request>>, <<>>, "none", Pair(FALSE, PyStr(reply.text)))
       [] reply.kind = "json" ->
            IF Truthy(DictGet(reply.body, "ok", PyNone))
            THEN IF "result" \in DOMAIN reply.body
                 THEN Ran(<<request>>, <<>>, "none",
                          Pair(TRUE, reply.body["result"]))
                 ELSE Ran(<<request>>, <<>>, "none", Pair(FALSE, PyStr("'result'")))
            ELSE Ran(<<request>>, <<>>, "none",
                     Pair(FALSE, DictGet(reply.body, "description",
                                         PyStr("Unknown error"))))

delete_webhook(bot_token, reply) ==
  LET request == Request("POST", "deleteWebhook", bot_token.value, PyNone)
  IN CASE reply.kind = "import_error" ->
            Ran(<<>>, <<>>, "ImportError", PyNone)
       [] reply.kind = "interrupt" ->
            Ran(<<request>>, <<>>, "KeyboardInterrupt", PyNone)
       [] reply.kind = "exception" ->
            Ran(<<request>>, <<>>, "none", Pair(FALSE, PyStr(reply.text)))
       [] reply.kind = "json" ->
            IF Truthy(DictGet(reply.body, "ok", PyNone))
            THEN Ran(<<request>>, <<>>, "none",
                     Pair(TRUE, PyStr("Webhook deleted successfully!")))
            ELSE Ran(<<request>>, <<>>, "none",
                     Pair(FALSE, DictGet(reply.body, "description",
                                         PyStr("Unknown error"))))

\* main whose generic handler prints but does not exit with 1.
main_mut(exception) ==
  CASE exception = "none" -> [code |-> 0, printed |-> <<>>]
    [] exception = "KeyboardInterrupt" ->
         [code |-> 1,
          printed |-> <<[kind |-> "setup_cancelled_by_user", text |-> ""]>>]
    [] OTHER ->
         [code |-> 0,
          printed |-> <<[kind |-> "unexpected_error", text |-> exception]>>]

\* main(): the exit status for what left interactive_setup.
\* KeyboardInterrupt and every Exception end in sys.exit(1); a plain
\* return falls off the end of main.
main(exception) ==
  CASE exception = "none" -> [code |-> 0, printed |-> <<>>]
    [] exception = "KeyboardInterrupt" ->
         [code |-> 1,
          printed |-> <<[kind |-> "setup_cancelled_by_user", text |-> ""]>>]
    [] OTHER ->
         [code |-> 1,
          printed |-> <<[kind |-> "unexpected_error", text |-> exception]>>]

(* ------------------------------------------------------------------ *)
(* State                                                               *)
(* ------------------------------------------------------------------ *)

VARIABLES
  pc,        \* position of the run
  locals,    \* local variables of interactive_setup
  answers,   \* what the operator answered to each yes/no question
  rejected,  \* entries the text prompts refused, in order
  calls,     \* requests sent to the Telegram API and their results, in order
  lookups,   \* aws lambda get-function-url-config runs and their results
  out,       \* lines printed
  raised,    \* exception that left interactive_setup, or "none"
  exit_code  \* process exit code, -1 while running

vars == <<pc, locals, answers, rejected, calls, lookups, out, raised, exit_code>>

Init ==
  /\ pc = "import"
  /\ locals = [bot_token |-> Unbound, action |-> Unbound,
               webhook_source |-> Unbound, function_name |-> Unbound,
               region |-> Unbound, webhook_url |-> Unbound,
               use_secret |-> Unbound, secret_token |-> Unbound]
  /\ answers = [delete |-> "unasked", use_secret |-> "unasked",
                generate |-> "unasked", proceed |-> "unasked"]
  /\ rejected = <<>>
  /\ calls = <<>>
  /\ lookups = <<>>
  /\ out = <<>>
  /\ raised = "none"
  /\ exit_code = -1

Line(kind, text) == [kind |-> kind, text |-> text]

\* History entries: each request (or aws command) a function sent, with
\* what the outside world answered and what the function returned.
Logged(ran, reply) ==
  [i \in 1..Len(ran.sent) |->
     [request |-> ran.sent[i], reply |-> reply,
      raises |-> ran.raises, ret |-> ran.ret]]

\* try: from InquirerPy import ... except ImportError: sys.exit(1)
Import ==
  /\ pc = "import"
  /\ \E available \in BOOLEAN :
       IF available
       THEN /\ pc' = "bot_token"
            /\ out' = Append(out, Line("banner", ""))
            /\ exit_code' = exit_code
       ELSE /\ pc' = "exited"
            /\ out' = Append(out, Line("inquirer_required", ""))
            /\ exit_code' = 1
  /\ UNCHANGED <<locals, answers, rejected, calls, lookups, raised>>

\* inquirer.text(validate=...).execute(): an entry the validator refuses
\* is not returned; the prompt stays open.
TextReject(prompt) ==
  /\ pc = prompt
  /\ Len(rejected) < MaxRejects
  /\ \E x \in TextInputs(prompt) :
       /\ ~Validate(prompt, x)
       /\ rejected' = Append(rejected, [prompt |-> prompt, input |-> x])
  /\ UNCHANGED <<pc, locals, answers, calls, lookups, out, raised, exit_code>>

\* inquirer.text(validate=...).execute(): an accepted entry is returned
\* and bound to the local variable of the same name.
TextAccept(prompt) ==
  /\ pc = prompt
  /\ \E x \in TextInputs(prompt) :
       /\ Validate(prompt, x)
       /\ locals' = [locals EXCEPT ![prompt] = PyStr(x)]
  /\ pc' = AfterText(prompt)
  /\ UNCHANGED <<answers, rejected, calls, lookups, out, raised, exit_code>>

\* inquirer.select of the action, and the branch on it.
SelectAction ==
  /\ pc = "action"
  /\ \E a \in Actions :
       /\ locals' = [locals EXCEPT !.action = PyStr(a)]
       /\ pc' = CASE a = "info" -> "info"
                  [] a = "delete" -> "delete_confirm"
                  [] a = "test" -> "test"
                  [] a = "set" -> "webhook_source"
       /\ out' = CASE a = "test" -> Append(out, Line("testing_connection", ""))
                   [] a = "set" -> Append(out, Line("setting_up_webhook", ""))
                   [] OTHER -> out
  /\ UNCHANGED <<answers, rejected, calls, lookups, raised, exit_code>>

\* What the info and test branches do with get_webhook_info's return:
\* print the url of the result, or the failure message.  result.get on
\* a result that is not a JSON object raises AttributeError.
ShowInfo(ran, shown, failed, default) ==
  IF ran.raises # "none"
  THEN [raises |-> ran.raises, printed |-> <<>>]
  ELSE IF ran.ret.success
  THEN IF ran.ret.value.type = "dict"
       THEN [raises |-> "none",
             printed |-> <<Line(shown, DictGet(ran.ret.value.value, "url",
                                               PyStr(default)).value)>>]
       ELSE [raises |-> "AttributeError", printed |-> <<>>]
  ELSE [raises |-> "none", printed |-> <<Line(failed, ran.ret.value.value)>>]

\* if action == "info": ... return
Info ==
  /\ pc = "info"
  /\ \E reply \in Replies("getWebhookInfo") :
       LET ran == get_webhook_info(locals.bot_token, reply)
           shown == ShowInfo(ran, "webhook_info", "failed_to_get_webhook_info",
                             "Not set")
       IN /\ calls' = calls \o Logged(ran, reply)
          /\ out' = out \o shown.printed
          /\ raised' = shown.raises
          /\ pc' = IF shown.raises = "none" THEN "returned" ELSE "raised"
  /\ UNCHANGED <<locals, answers, rejected, lookups, exit_code>>

\* elif action == "test": ... return
Test ==
  /\ pc = "test"
  /\ \E reply \in Replies("getWebhookInfo") :
       LET ran == get_webhook_info(locals.bot_token, reply)
           shown == ShowInfo(ran, "bot_is_accessible", "failed_to_connect",
                             "Not configured")
       IN /\ calls' = calls \o Logged(ran, reply)
          /\ out' = out \o shown.printed
          /\ raised' = shown.raises
          /\ pc' = IF shown.raises = "none" THEN "returned" ELSE "raised"
  /\ UNCHANGED <<locals, answers, rejected, lookups, exit_code>>

\* confirm = inquirer.confirm("Are you sure ...").execute()
DeleteConfirm ==
  /\ pc = "delete_confirm"
  /\ \E confirm \in BOOLEAN :
       /\ answers' = [answers EXCEPT !.delete = IF confirm THEN "yes" ELSE "no"]
       /\ IF Truthy(PyBool(confirm))
          THEN pc' = "delete" /\ out' = out
          ELSE pc' = "returned" /\ out' = Append(out, Line("cancelled", ""))
  /\ UNCHANGED <<locals, rejected, calls, lookups, raised, exit_code>>

\* success, message = delete_webhook(bot_token) ... return
Delete ==
  /\ pc = "delete"
  /\ \E reply \in Replies("deleteWebhook") :
       LET ran == delete_webhook(locals.bot_token, reply)
       IN /\ calls' = calls \o Logged(ran, reply)
          /\ raised' = ran.raises
          /\ IF ran.raises # "none"
             THEN pc' = "raised" /\ out' = out
             ELSE /\ pc' = "returned"
                  /\ out' = Append(out,
                        IF ran.ret.success
                        THEN Line("ok", ran.ret.value.value)
                        ELSE Line("failed_to_delete_webhook",
                                  ran.ret.value.value))
  /\ UNCHANGED <<locals, answers, rejected, lookups, exit_code>>

\* webhook_source = inquirer.select(...).execute()
SelectSource ==
  /\ pc = "webhook_source"
  /\ \E source \in Sources :
       /\ locals' = [locals EXCEPT !.webhook_source = PyStr(source)]
       /\ pc' = IF source = "auto" THEN "function_name" ELSE "webhook_url"
  /\ UNCHANGED <<answers, rejected, calls, lookups, out, raised, exit_code>>

\* webhook_url = get_function_url(function_name, region)
\* if not webhook_url: print(...); return
Lookup ==
  /\ pc = "lookup"
  /\ \E outcome \in LookupOutcomes :
       LET ran == get_function_url(locals.function_name, locals.region, outcome)
       IN /\ lookups' = lookups \o Logged(ran, outcome)
          /\ raised' = ran.raises
          /\ locals' = IF ran.raises = "none"
                       THEN [locals EXCEPT !.webhook_url = ran.ret]
                       ELSE locals
          /\ out' = out \o <<Line("getting_function_url", "")>> \o ran.printed
                    \o (IF ran.raises = "none" /\ ~Truthy(ran.ret)
                        THEN <<Line("could_not_get_function_url", "")>>
                        ELSE <<>>)
          /\ pc' = IF ran.raises # "none" THEN "raised"
                   ELSE IF ~Truthy(ran.ret) THEN "returned"
                   ELSE "use_secret"
  /\ UNCHANGED <<answers, rejected, calls, exit_code>>

\* use_secret = inquirer.confirm(...).execute() and the block under
\* `if use_secret:`.  The "Generate random secret token?" prompt object
\* is tested as built; it is not executed.
UseSecret ==
  /\ pc = "use_secret"
  /\ \E use_secret \in BOOLEAN :
       /\ answers' = [answers EXCEPT
                        !.use_secret = IF use_secret THEN "yes" ELSE "no"]
       /\ IF Truthy(PyBool(use_secret))
          THEN IF Truthy(ConfirmPrompt("Generate random secret token?"))
               THEN \E token \in token_urlsafe(SecretBytes) :
                      /\ locals' = [locals EXCEPT
                                      !.use_secret = PyBool(use_secret),
                                      !.secret_token = PyStr(token)]
                      /\ out' = Append(out, Line("generated_secret_token", token))
                      /\ pc' = "summary"
               ELSE /\ locals' = [locals EXCEPT
                                    !.use_secret = PyBool(use_secret),
                                    !.secret_token = PyNone]
                    /\ out' = out
                    /\ pc' = "secret_token"
          ELSE /\ locals' = [locals EXCEPT
                               !.use_secret = PyBool(use_secret),
                               !.secret_token = PyNone]
               /\ out' = out
               /\ pc' = "summary"
  /\ UNCHANGED <<rejected, calls, lookups, raised, exit_code>>

\* The summary lines and `if not inquirer.confirm("Proceed ..."):`.
\* The prompt object is tested as built; it is not executed.
Summary ==
  /\ pc = "summary"
  /\ IF ~Truthy(ConfirmPrompt("Proceed with webhook setup?"))
     THEN /\ out' = out \o <<Line("summary", locals.webhook_url.value),
                             Line("cancelled", "")>>
          /\ pc' = "returned"
     ELSE /\ out' = out \o <<Line("summary", locals.webhook_url.value),
                             Line("setting_webhook", "")>>
          /\ pc' = "set"
  /\ UNCHANGED <<locals, answers, rejected, calls, lookups, raised, exit_code>>

\* SetWebhook that tries once more after a failure.
SetWebhook_retry ==
  /\ pc = "set"
  /\ \E reply \in Replies("setWebhook") :
       LET ran == set_webhook(locals.bot_token, locals.webhook_url,
                              locals.secret_token, reply)
       IN /\ calls' = calls \o Logged(ran, reply)
          /\ raised' = ran.raises
          /\ IF ran.raises # "none"
             THEN pc' = "raised" /\ out' = out
             ELSE IF ~ran.ret.success /\ Len(calls) = 0
             THEN pc' = "set" /\ out' = out
             ELSE /\ pc' = "returned"
                  /\ out' = Append(out,
                        IF ran.ret.success
                        THEN Line("webhook_set", locals.webhook_url.value)
                        ELSE Line("failed_to_set_webhook",
                                  ran.ret.value.value))
  /\ UNCHANGED <<locals, answers, rejected, lookups, exit_code>>

\* success, message = set_webhook(bot_token, webhook_url, secret_token)
SetWebhook ==
  /\ pc = "set"
  /\ \E reply \in Replies("setWebhook") :
       LET ran == set_webhook(locals.bot_token, locals.webhook_url,
                              locals.secret_token, reply)
       IN /\ calls' = calls \o Logged(ran, reply)
          /\ raised' = ran.raises
          /\ IF ran.raises # "none"
             THEN pc' = "raised" /\ out' = out
             ELSE /\ pc' = "returned"
                  /\ out' = Append(out,
                        IF ran.ret.success
                        THEN Line("webhook_set", locals.webhook_url.value)
                        ELSE Line("failed_to_set_webhook",
                                  ran.ret.value.value))
  /\ UNCHANGED <<locals, answers, rejected, lookups, exit_code>>

\* Ctrl-C while a prompt is open: .execute() raises KeyboardInterrupt.
Interrupt ==
  /\ pc \in PromptPcs
  /\ raised' = "KeyboardInterrupt"
  /\ pc' = "raised"
  /\ UNCHANGED <<locals, answers, rejected, calls, lookups, out, exit_code>>

\* main(): interactive_setup has returned or raised.
MainExit ==
  /\ pc \in {"returned", "raised"}
  /\ out' = out \o main(raised).printed
  /\ exit_code' = main(raised).code
  /\ pc' = "exited"
  /\ UNCHANGED <<locals, answers, rejected, calls, lookups, raised>>

Next ==
  \/ Import
  \/ \E p \in TextPrompts : TextReject(p)
  \/ \E p \in TextPrompts : TextAccept(p)
  \/ SelectAction
  \/ Info
  \/ Test
  \/ DeleteConfirm
  \/ Delete
  \/ SelectSource
  \/ Lookup
  \/ UseSecret
  \/ Summary
  \/ SetWebhook
  \/ Interrupt
  \/ MainExit

Spec == Init /\ [][Next]_vars

\* Under weak fairness the run keeps stepping while a step is possible:
\* the script is a single blocking thread, every prompt is eventually
\* answered and every external call returns or times out.
FairSpec == Spec /\ WF_vars(Next)

(* ------------------------------------------------------------------ *)
(* Properties                                                          *)
(* ------------------------------------------------------------------ *)

CallsTo(endpoint) ==
  { i \in DOMAIN calls : calls[i].request.endpoint = endpoint }

Printed(kind) == \E i \in DOMAIN out : out[i].kind = kind

Finished == pc \in {"returned", "raised", "exited"}

\* C1: deleteWebhook is called only after the operator answered yes to
\* the delete confirmation, setWebhook only after the operator answered
\* yes to the final "proceed" confirmation, and a no to either one ends
\* the flow with neither call made.
C1_ConfirmedBeforeCall ==
  /\ CallsTo("deleteWebhook") # {} => answers.delete = "yes"
  /\ CallsTo("setWebhook") # {} => answers.proceed = "yes"
  /\ (answers.delete = "no" \/ answers.proceed = "no") =>
       /\ CallsTo("deleteWebhook") = {}
       /\ CallsTo("setWebhook") = {}
       /\ Finished

\* C2: whenever the Telegram API answers {ok: false, description: X},
\* get_webhook_info, set_webhook and delete_webhook each return
\* (False, X) with X unchanged.
C2_DescriptionVerbatim ==
  \A i \in DOMAIN calls :
    LET c == calls[i] IN
      (/\ c.reply.kind = "json"
       /\ {"ok", "description"} \subseteq DOMAIN c.reply.body
       /\ c.reply.body.ok = PyBool(FALSE))
      => c.raises = "none" /\ c.ret = Pair(FALSE, c.reply.body.description)

C2_Witness ==
  /\ \E i \in DOMAIN calls :
       /\ calls[i].reply = [kind |-> "json",
                            body |-> [ok |-> PyBool(FALSE),
                                      description |-> PyStr("Unauthorized")]]
       /\ calls[i].ret = Pair(FALSE, PyStr("Unauthorized"))
  /\ Printed("failed_to_set_webhook")

\* The aws command ran and printed a JSON object without FunctionUrl.
NoUrlField(l) ==
  /\ l.reply.kind = "stdout"
  /\ l.reply.config.type = "dict"
  /\ "FunctionUrl" \notin DOMAIN l.reply.config.value

\* C3: when the aws lookup answers without a URL field, the set flow
\* ends as it does for a failed lookup: get_function_url returns None,
\* "Could not get function URL" is printed, no exception leaves the
\* flow, and set_webhook is not called.
C3_MissingUrlHandled ==
  \A i \in DOMAIN lookups :
    NoUrlField(lookups[i]) =>
      /\ lookups[i].raises = "none"
      /\ lookups[i].ret = PyNone
      /\ raised = "none"
      /\ Printed("could_not_get_function_url")
      /\ CallsTo("setWebhook") = {}

\* C4: the secret token sent with setWebhook follows the operator's
\* choices: a generated token is sent only when the operator accepted
\* generation; when the operator declined it, the token sent is the
\* entered one and has at least 8 characters.
C4_SecretFollowsChoice ==
  \A i \in CallsTo("setWebhook") :
    LET payload == calls[i].request.json.value IN
      "secret_token" \in DOMAIN payload =>
        \/ /\ answers.generate = "yes"
           /\ payload.secret_token \in token_urlsafe(SecretBytes)
        \/ /\ answers.generate = "no"
           /\ payload.secret_token \in TextInputs("secret_token")
           /\ Len(payload.secret_token) >= MinSecretLen

\* The manual secret-token prompt is never opened: the operator's
\* choice between a generated and an entered token is never read.
SecretPromptUnreachable == pc # "secret_token" /\ answers.generate = "unasked"

\* C5: the body of every setWebhook request has the key url with the
\* resolved destination URL, and has the key secret_token exactly when
\* the operator chose to attach a secret token; with a manual URL and
\* no secret token the body is exactly {url}; and when the API answers
\* ok the flow prints success.
C5_SetWebhookBody ==
  \A i \in CallsTo("setWebhook") :
    LET payload == calls[i].request.json.value IN
      /\ "url" \in DOMAIN payload
      /\ payload.url = locals.webhook_url.value
      /\ "secret_token" \in DOMAIN payload <=> answers.use_secret = "yes"
      /\ (locals.webhook_source = PyStr("manual") /\ answers.use_secret = "no")
           => payload = [url |-> locals.webhook_url.value]
      /\ (calls[i].raises = "none" /\ calls[i].ret.success)
           => Printed("webhook_set")

C5_Witness ==
  /\ pc = "exited"
  /\ locals.webhook_source = PyStr("manual")
  /\ answers.use_secret = "no"
  /\ \E i \in CallsTo("setWebhook") :
       /\ calls[i].request.json = PyDict([url |-> "https://x.test/hook"])
       /\ calls[i].reply = [kind |-> "json", body |-> [ok |-> PyBool(TRUE)]]
  /\ Printed("webhook_set")
  /\ exit_code = 0

\* C6 as stated: exit code 0 when the flow completes normally, 1
\* whenever the operator cancels (interrupt, or a no to a confirmation)
\* or an exception leaves the flow.
C6_ExitOneOnEveryCancel ==
  pc = "exited" /\ ~Printed("inquirer_required") =>
    exit_code = IF \/ raised # "none"
                   \/ answers.delete = "no"
                   \/ answers.proceed = "no"
                THEN 1 ELSE 0

\* C6 (amended): exit code 1 exactly when KeyboardInterrupt or another
\* exception leaves interactive_setup (or InquirerPy is missing), and 0
\* whenever interactive_setup returns, which includes a no to the delete
\* confirmation and every failure the flow prints itself.
C6_ExitCode ==
  /\ pc = "exited" =>
       exit_code = IF raised # "none" \/ Printed("inquirer_required")
                   THEN 1 ELSE 0
  /\ pc # "exited" => exit_code = -1
  /\ raised = "KeyboardInterrupt" /\ pc = "exited"
       => Printed("setup_cancelled_by_user")
  /\ raised \notin {"none", "KeyboardInterrupt"} /\ pc = "exited"
       => Printed("unexpected_error")

C6_Witness ==
  /\ pc = "exited"
  /\ answers.delete = "no"
  /\ Printed("cancelled")
  /\ raised = "none"
  /\ exit_code = 0

BadCredential(x) == Len(x) = 0 \/ SubSeq(x, 1, 1) \notin Digits

\* C7: a credential that is empty or does not start with a digit is
\* never accepted by the credential prompt and never appears in a
\* request, no request or aws lookup happens before a credential was
\* accepted, and a manually entered URL that does not start with
\* https:// is never accepted and never sent to setWebhook.
C7_InvalidInputNeverSent ==
  /\ locals.bot_token # Unbound => ~BadCredential(locals.bot_token.value)
  /\ \A i \in DOMAIN calls : ~BadCredential(calls[i].request.bot_token)
  /\ (calls # <<>> \/ lookups # <<>>) => locals.bot_token # Unbound
  /\ locals.webhook_source = PyStr("manual") =>
       /\ locals.webhook_url # Unbound
            => startswith(locals.webhook_url.value, HttpsPrefix)
       /\ \A i \in CallsTo("setWebhook") :
            startswith(calls[i].request.json.value.url, HttpsPrefix)

C7_Witness ==
  /\ \E i \in DOMAIN rejected :
       rejected[i].prompt = "bot_token" /\ BadCredential(rejected[i].input)
  /\ \E i \in DOMAIN rejected :
       /\ rejected[i].prompt = "webhook_url"
       /\ ~startswith(rejected[i].input, HttpsPrefix)
  /\ CallsTo("setWebhook") # {}

\* C8: the credential prompt refuses only entries that are empty or do
\* not start with a digit.
C8_AcceptsNumericPrefixed ==
  \A i \in DOMAIN rejected :
    rejected[i].prompt = "bot_token" => BadCredential(rejected[i].input)

\* Order of the steps of the flow.
Rank(p) ==
  CASE p = "import" -> 0
    [] p = "bot_token" -> 1
    [] p = "action" -> 2
    [] p \in {"info", "test", "delete_confirm", "webhook_source"} -> 3
    [] p \in {"delete", "function_name", "webhook_url"} -> 4
    [] p = "region" -> 5
    [] p = "lookup" -> 6
    [] p = "use_secret" -> 7
    [] p = "secret_token" -> 8
    [] p = "summary" -> 9
    [] p = "set" -> 10
    [] p \in {"returned", "raised"} -> 11
    [] p = "exited" -> 12

\* C9: every run terminates, a step that was left is never entered
\* again, once the flow has returned or raised nothing more is asked,
\* sent or looked up, and nothing happens after the process exited.
C9_RunsOnceAndTerminates ==
  /\ <>(pc = "exited")
  /\ [][/\ pc' # pc => Rank(pc') > Rank(pc)
        /\ Finished => /\ pc' \notin PromptPcs
                       /\ calls' = calls
                       /\ lookups' = lookups
                       /\ answers' = answers
                       /\ rejected' = rejected
        /\ pc # "exited"]_vars

C9_Witness ==
  /\ pc = "exited"
  /\ rejected # <<>>
  /\ lookups # <<>>
  /\ CallsTo("setWebhook") # {}
  /\ exit_code = 0

EndpointOf(action) ==
  CASE action \in {"info", "test"} -> "getWebhookInfo"
    [] action = "delete" -> "deleteWebhook"
    [] action = "set" -> "setWebhook"

\* C10: one run sends at most one Telegram API request, to the endpoint
\* of the chosen action, and runs the aws lookup at most once and only
\* in the set flow with the automatic URL source.
C10_AtMostOneCall ==
  /\ Len(calls) <= 1
  /\ Len(lookups) <= 1
  /\ \A i \in DOMAIN calls :
       /\ locals.action # Unbound
       /\ calls[i].request.endpoint = EndpointOf(locals.action.value)
  /\ lookups # <<>> =>
       locals.action = PyStr("set") /\ locals.webhook_source = PyStr("auto")

C10_Witness ==
  /\ pc = "exited"
  /\ Len(lookups) = 1
  /\ Len(calls) = 1
  /\ calls[1].request.endpoint = "setWebhook"
  /\ calls[1].raises = "none"
  /\ ~calls[1].ret.success
  /\ Printed("failed_to_set_webhook")
====
